---- MODULE Spec2Model ----
(***************************************************************************)
(* Model of lead_scout_summary_generator_app.py: the module-level note     *)
(* accumulator gap_notes, classify_gap_and_note, combine_notes and         *)
(* process_data (normalise, sort, per-event gaps, per-(rep, day)           *)
(* aggregation, derived metrics, sunset annotation).                       *)
(*                                                                         *)
(* Instants are whole seconds since midnight of day 0 (local, naive).      *)
(* A float column that can be NaN or +-inf is a record [k, v]: k is        *)
(* "nan", "inf" or "num"; v is the number (hundredths after .round(2)).    *)
(* A formatted duration "{H}h {M}m" is the pair <<H, M>>.                  *)
(* Float quotients are computed exactly on integers; the program's binary  *)
(* floats can differ from them only where the exact value is a rounding    *)
(* tie or a whole number of minutes (24.999... for 25 prints "24m 60s").   *)
(*                                                                         *)
(* Spec runs process_data on timeline tables, SpecRates on one-day tables  *)
(* of every status, SpecFormat on one-day tables with a time that is not a *)
(* whole minute; SpecClassify runs classify_gap_and_note on single rows.   *)
(***************************************************************************)
EXTENDS Integers, Sequences, FiniteSets, TLC

VARIABLES df, gap_notes, rows, grouped, outcome, calls, sunset_down

vars == <<df, gap_notes, rows, grouped, outcome, calls, sunset_down>>

-----------------------------------------------------------------------------
(* Bounds of the model *)

MaxEvents == 3
MaxCalls == 2

(* Constants of the program *)

DaySeconds == 86400
HourSeconds == 3600
MinuteSeconds == 60
VeryLongGap == 7200
LongGap == 1800
ShortPin == 30
SlowPin == 300

-----------------------------------------------------------------------------
(* Inputs: the uploaded table *)

Reps == {"Ann", "Bob"}

\* Python's string order on the rep identifiers
RepRank == [r \in Reps |-> IF r = "Ann" THEN 1 ELSE 2]

\* 09:00, 09:10 and 10:50 of day 0; 09:00 of day 1
Times == {32400, 33000, 39000, 118800}

Statuses == {"Not Interested", "Interested - Follow Up", "Inspected - No Damage",
             "Inspected - Damage", "Claim Filed"}

\* pins of the timeline tables: Ann on day 0 at every time with three statuses
\* and on day 1; Bob between her pins of day 0
Pins == [rep : {"Ann"}, at : {32400, 33000, 39000},
         status : {"Not Interested", "Interested - Follow Up", "Inspected - No Damage"}]
          \cup [rep : {"Ann"}, at : {118800}, status : {"Not Interested"}]
          \cup [rep : {"Bob"}, at : {33000}, status : {"Not Interested"}]

\* pins of the rate tables: one rep, one day, every status
RatePins == [rep : {"Ann"}, at : {32400, 39000}, status : Statuses]

\* pins of the duration tables: one rep, 09:00:00, 09:10:00 and 09:59:59 of
\* day 0, a door knocked or a roof inspected
FormatPins == [rep : {"Ann"}, at : {32400, 33000, 35999},
               status : {"Not Interested", "Inspected - No Damage"}]

TablesOf(pins) == UNION {[1..n -> pins] : n \in 1..MaxEvents}

\* every uploaded row carries its own street address, named by its row number
Upload(t) == [i \in 1..Len(t) |->
                [rep |-> t[i].rep, at |-> t[i].at, status |-> t[i].status,
                 tags |-> "", addr |-> i]]

NoDay == -1

\* the sunset service's answer for a day: 20:00 local time
SunsetAnswer(d) == d * DaySeconds + 20 * HourSeconds

-----------------------------------------------------------------------------
(* Values *)

NaN == [k |-> "nan", v |-> 0]
Inf == [k |-> "inf", v |-> 0]
Num(x) == [k |-> "num", v |-> x]

IsNull(x) == x.k = "nan"

Max(S) == CHOOSE x \in S : \A y \in S : y <= x
Min(S) == CHOOSE x \in S : \A y \in S : x <= y

RECURSIVE SumSeq(_)
SumSeq(s) == IF s = <<>> THEN 0 ELSE Head(s) + SumSeq(Tail(s))

\* round-half-to-even of a / b, b > 0
RoundDiv(a, b) ==
  LET q == a \div b
      r == a - q * b
  IN  IF 2 * r < b THEN q
      ELSE IF 2 * r > b THEN q + 1
      ELSE IF q % 2 = 0 THEN q ELSE q + 1

\* n / d on integer columns, then .round(2): hundredths
Quot(n, d) ==
  IF d = 0 THEN (IF n = 0 THEN NaN ELSE Inf)
  ELSE IF d > 0 THEN Num(RoundDiv(100 * n, d))
  ELSE Num(RoundDiv(-(100 * n), -d))

\* as ReplaceInf, had the replacement been left out
KeepInf(x) == x

\* .replace([np.inf, -np.inf], np.nan)
ReplaceInf(x) == IF x.k = "inf" THEN NaN ELSE x

\* f"{int(s // 3600)}h {int((s % 3600) // 60)}m"
HM(s) == <<s \div HourSeconds, (s % HourSeconds) \div MinuteSeconds>>

ZeroHM == <<0, 0>>

-----------------------------------------------------------------------------
(* Event Normalizer: process_data, lines 54-61 *)

Lower(status) ==
  CASE status = "Not Interested" -> "not interested"
    [] status = "Interested - Follow Up" -> "interested - follow up"
    [] status = "Inspected - No Damage" -> "inspected - no damage"
    [] status = "Inspected - Damage" -> "inspected - damage"
    [] status = "Claim Filed" -> "claim filed"
    [] OTHER -> status

Date(at) == at \div DaySeconds

Normalize(r) ==
  [rep |-> r.rep, at |-> r.at, status |-> r.status, lower |-> Lower(r.status),
   tags |-> r.tags, addr |-> r.addr, date |-> Date(r.at)]

\* sort key (Lead Status Updated By, Lead Status Updated At)
Before(a, b) ==
  \/ RepRank[a.rep] < RepRank[b.rep]
  \/ a.rep = b.rep /\ a.at < b.at

\* stable: e goes after every element it does not precede
RECURSIVE Insert(_, _)
Insert(s, e) ==
  IF s = <<>> THEN <<e>>
  ELSE IF Before(e, Head(s)) THEN <<e>> \o s
  ELSE <<Head(s)>> \o Insert(Tail(s), e)

RECURSIVE SortPrefix(_, _)
SortPrefix(t, n) == IF n = 0 THEN <<>> ELSE Insert(SortPrefix(t, n - 1), t[n])

SortValues(t) == SortPrefix(t, Len(t))

Normalized(t) == SortValues([i \in 1..Len(t) |-> Normalize(t[i])])

-----------------------------------------------------------------------------
(* Per-event columns: process_data, lines 64-99 *)

IsConversation(r) ==
  IF \/ r.lower \in {"interested - follow up", "inspection scheduled",
                     "not interested - yet"}
     \/ r.lower = "do not knock" /\ r.tags = ""
  THEN 1 ELSE 0

\* str.contains("Inspected", case=False)
IsInspection(r) ==
  IF r.lower \in {"inspected - no damage", "inspected - damage"} THEN 1 ELSE 0

\* the nearest row at or above j of the rep of row i
RECURSIVE RowAbove(_, _, _)
RowAbove(s, i, j) ==
  IF j = 0 THEN 0
  ELSE IF s[j].rep = s[i].rep THEN j
  ELSE RowAbove(s, i, j - 1)

\* as PrevIndex, had the shift been taken within (rep, day)
PrevIndexWithinDay(s, i) ==
  LET j == RowAbove(s, i, i - 1)
  IN  IF j # 0 /\ s[j].date = s[i].date THEN j ELSE 0

\* groupby("Lead Status Updated By").shift(1): the row above within the rep
PrevIndex(s, i) == RowAbove(s, i, i - 1)

\* line 75
PreviousTime(s, j) == IF j = 0 THEN NaN ELSE Num(s[j].at)

\* lines 76-78
TimeSinceLastPin(at, previous_time) ==
  IF IsNull(previous_time) THEN NaN ELSE Num(at - previous_time.v)

\* line 81
PreviousIsInspection(s, j) == IF j = 0 THEN NaN ELSE Num(IsInspection(s[j]))

\* lines 82-87
InspectionGap(gap, prev_insp) ==
  IF ~IsNull(gap) /\ prev_insp = Num(1) THEN gap.v ELSE 0

\* line 99; 0 stands for the missing address of a rep's first row
PreviousAddress(s, j) == IF j = 0 THEN 0 ELSE s[j].addr

EventColumns(s, i) ==
  LET j == PrevIndex(s, i)
      gap == TimeSinceLastPin(s[i].at, PreviousTime(s, j))
      prev_insp == PreviousIsInspection(s, j)
      insp == IsInspection(s[i])
  IN  [rep |-> s[i].rep, at |-> s[i].at, date |-> s[i].date,
       status |-> s[i].status, lower |-> s[i].lower, addr |-> s[i].addr,
       is_conversation |-> IsConversation(s[i]),
       gap |-> gap,
       is_inspection |-> insp,
       prev_is_inspection |-> prev_insp,
       inspection_gap |-> InspectionGap(gap, prev_insp),
       lt_30s |-> IF ~IsNull(gap) /\ gap.v < ShortPin THEN 1 ELSE 0,
       gt_5m_non_insp |-> IF ~IsNull(gap) /\ gap.v > SlowPin /\ insp = 0 THEN 1 ELSE 0,
       prev_addr |-> PreviousAddress(s, j)]

WithColumns(s) == [i \in 1..Len(s) |-> EventColumns(s, i)]

-----------------------------------------------------------------------------
(* classify_gap_and_note, lines 27-50 *)

GetNotes(notes, key) == IF key \in DOMAIN notes THEN notes[key] ELSE <<>>

\* gap_notes[(rep, date)].append(note)
AppendNote(notes, key, note) ==
  [k \in DOMAIN notes \cup {key} |-> IF k = key THEN Append(GetNotes(notes, key), note)
                                     ELSE notes[k]]

\* as Reason, had Rule 1 been tested before Rule 2 and with >=
ReasonRule1First(gap, is_inspection) ==
  IF gap >= LongGap /\ is_inspection = 0 THEN "Rule 1: >30 min, not inspection"
  ELSE IF gap > VeryLongGap THEN "Rule 2: >120 min"
  ELSE "none"

\* as Reason, had Rule 1 not looked at Is Inspection
ReasonIgnoringInspection(gap, is_inspection) ==
  IF gap > VeryLongGap THEN "Rule 2: >120 min"
  ELSE IF gap > LongGap THEN "Rule 1: >30 min, not inspection"
  ELSE "none"

Reason(gap, is_inspection) ==
  IF gap > VeryLongGap THEN "Rule 2: >120 min"
  ELSE IF gap > LongGap /\ is_inspection = 0 THEN "Rule 1: >30 min, not inspection"
  ELSE "none"

\* f"{hrs}h {mins}m" if hrs else f"{mins}m"
TimeStr(gap) ==
  LET hrs == gap \div HourSeconds
      mins == (gap % HourSeconds) \div MinuteSeconds
  IN  IF hrs # 0 THEN <<hrs, mins>> ELSE <<mins>>

\* the value returned and the accumulator afterwards
ClassifyGapAndNote(row, notes) ==
  IF IsNull(row.gap) THEN [ret |-> 0, notes |-> notes]
  ELSE LET reason == Reason(row.gap.v, row.is_inspection)
       IN  IF reason = "none" THEN [ret |-> 0, notes |-> notes]
           ELSE [ret |-> row.gap.v,
                 notes |-> AppendNote(notes, <<row.rep, row.date>>,
                             [time_str |-> TimeStr(row.gap.v), first_addr |-> row.prev_addr,
                              second_addr |-> row.addr, reason |-> reason])]

\* df.apply(classify_gap_and_note, axis=1) over the first n rows, in row order
RECURSIVE ApplyClassify(_, _, _)
ApplyClassify(s, n, notes) ==
  IF n = 0 THEN [rows |-> <<>>, notes |-> notes]
  ELSE LET before == ApplyClassify(s, n - 1, notes)
           c == ClassifyGapAndNote(s[n], before.notes)
       IN  [rows |-> Append(before.rows, [long_gaps |-> c.ret] @@ s[n]),
            notes |-> c.notes]

Classified(t, notes) ==
  LET s == WithColumns(Normalized(t)) IN ApplyClassify(s, Len(s), notes)

-----------------------------------------------------------------------------
(* Daily Aggregator and Metrics Deriver: process_data, lines 101-204 *)

KeyOf(r) == <<r.rep, r.date>>

\* groupby(["Lead Status Updated By", "Date"]): the keys of the first n rows,
\* ascending; the frame is sorted by (rep, timestamp), so that is their order of
\* first appearance
RECURSIVE KeysOfPrefix(_, _)
KeysOfPrefix(rs, n) ==
  IF n = 0 THEN <<>>
  ELSE LET ks == KeysOfPrefix(rs, n - 1)
       IN  IF \E k \in 1..Len(ks) : ks[k] = KeyOf(rs[n]) THEN ks
           ELSE Append(ks, KeyOf(rs[n]))

GroupKeys(rs) == KeysOfPrefix(rs, Len(rs))

Group(rs, key) == SelectSeq(rs, LAMBDA r : KeyOf(r) = key)

\* the sum of column f over the first n rows of the group
RECURSIVE SumCol(_, _, _)
SumCol(g, f, n) == IF n = 0 THEN 0 ELSE g[n][f] + SumCol(g, f, n - 1)

\* (column == value).astype(int), summed over the first n rows of the group
RECURSIVE Count(_, _, _, _)
Count(g, f, value, n) ==
  IF n = 0 THEN 0 ELSE (IF g[n][f] = value THEN 1 ELSE 0) + Count(g, f, value, n - 1)

\* combine_notes, lines 22-25
CombineNotes(notes, key) == GetNotes(notes, key)

\* lines 155-165
BeforeSunset(sunset, finish) ==
  LET diff == sunset - finish
  IN  IF diff > 0 THEN [text |-> HM(diff), hours |-> RoundDiv(100 * diff, HourSeconds)]
      ELSE [text |-> ZeroHM, hours |-> 0]

\* as AdjTimeInField, without the floor
AdjTimeInFieldUnfloored(td) == HM(td)

\* lines 180-183
AdjTimeInField(td) == IF td > 0 THEN HM(td) ELSE ZeroHM

\* lines 185-187; s is Field Time Less Inspections (Hours) * 3600
FieldTimeLessInspections(s) ==
  IF s > 0 THEN <<s \div HourSeconds, RoundDiv(s % HourSeconds, MinuteSeconds)>>
  ELSE ZeroHM

\* lines 189-196: minutes per door, "{m}m {s}s"
TrueAvgTimePerDoor(s, pins) ==
  IF s > 0 THEN <<s \div (MinuteSeconds * pins), RoundDiv(s % (MinuteSeconds * pins), pins)>>
  ELSE ZeroHM

\* lines 198-200
TrueDPH(pins, s) == ReplaceInf(Quot(pins * HourSeconds, s))

\* lines 137-139
DPH(pins, s) == ReplaceInf(Quot(pins * HourSeconds, s))

\* as ConvoPct, had a zero rate been blanked
ConvoPctBlankZero(conversations, pins) ==
  IF conversations = 0 THEN NaN ELSE Quot(conversations, pins)

\* line 132
ConvoPct(conversations, pins) == Quot(conversations, pins)

\* line 133
InspectionsPerDoor(inspections, pins) == Quot(inspections, pins)

\* lines 134-136
InspectionsPerConvo(inspections, conversations) == ReplaceInf(Quot(inspections, conversations))

\* lines 140-142
ClosingPct(claims, damage) == ReplaceInf(Quot(claims, damage))

\* lines 178-179
AdjSeconds(finish, start, long_gaps) == (finish - start) - long_gaps

\* line 184
FieldLessInspectionSeconds(adj, inspection) == adj - inspection

\* one output row: the group g of key, with the accumulator as classification left it
SummaryRow(g, key, notes) ==
  LET start == Min({g[i].at : i \in 1..Len(g)})
      finish == Max({g[i].at : i \in 1..Len(g)})
      pins == Len(g)
      conversations == SumCol(g, "is_conversation", pins)
      inspections == SumCol(g, "is_inspection", pins)
      damage == Count(g, "status", "Inspected - Damage", pins)
      claims == Count(g, "status", "Claim Filed", pins)
      inspection_s == SumCol(g, "inspection_gap", pins)
      long_s == SumCol(g, "long_gaps", pins)
      sunset == SunsetAnswer(key[2])
      before == BeforeSunset(sunset, finish)
      adj == AdjSeconds(finish, start, long_s)
      ftli == FieldLessInspectionSeconds(adj, inspection_s)
      true_dph == TrueDPH(pins, ftli)
  IN  [rep |-> key[1], date |-> key[2], start |-> start, finish |-> finish,
       total_pins |-> pins,
       conversations |-> conversations,
       inspections |-> inspections,
       pins_lt_30s |-> SumCol(g, "lt_30s", pins),
       pins_gt_5m_noninsp |-> SumCol(g, "gt_5m_non_insp", pins),
       insp_scheduled |-> Count(g, "lower", "inspection scheduled", pins),
       insp_no_damage |-> Count(g, "status", "Inspected - No Damage", pins),
       insp_damage |-> damage,
       claims_filed |-> claims,
       time_in_field_s |-> finish - start,
       time_in_field |-> HM(finish - start),
       convo_pct |-> ConvoPct(conversations, pins),
       inspections_per_door |-> InspectionsPerDoor(inspections, pins),
       inspections_per_convo |-> InspectionsPerConvo(inspections, conversations),
       dph |-> DPH(pins, finish - start),
       closing_pct |-> ClosingPct(claims, damage),
       inspection_time_s |-> inspection_s,
       inspection_time |-> IF inspection_s > 0 THEN HM(inspection_s) ELSE ZeroHM,
       sunset_time |-> sunset,
       before_sunset |-> before.text,
       before_sunset_hours |-> before.hours,
       position |-> "TBD",
       total_long_gaps_s |-> long_s,
       note |-> CombineNotes(notes, key),
       adj_s |-> adj,
       adj_time_in_field |-> AdjTimeInField(adj),
       ftli_s |-> ftli,
       field_time_less_inspections |-> FieldTimeLessInspections(ftli),
       true_avg_time_per_door |-> TrueAvgTimePerDoor(ftli, pins),
       true_dph |-> true_dph,
       true_dph_formatted |-> [na |-> IsNull(true_dph), dph |-> true_dph.v]]

Summaries(rs, notes) ==
  LET keys == GroupKeys(rs)
  IN  [k \in 1..Len(keys) |-> SummaryRow(Group(rs, keys[k]), keys[k], notes)]

Days == {Date(t) : t \in Times}

\* get_sunset_time, lines 14-20: raises when the lookup for a day fails
SunsetRaises(rs, down) == \E i \in 1..Len(rs) : rs[i].date = down

-----------------------------------------------------------------------------
(* The program *)

\* line 12, and the script's upload at lines 339-342; the sunset service is
\* down for at most one day
Init ==
  /\ \E t \in TablesOf(Pins) : df = Upload(t)
  /\ gap_notes = <<>>
  /\ rows = <<>>
  /\ grouped = <<>>
  /\ outcome = "idle"
  /\ calls = 0
  /\ sunset_down \in Days \cup {NoDay}

\* the same, for a rate table and a working sunset service
InitRates ==
  /\ \E t \in TablesOf(RatePins) : df = Upload(t)
  /\ gap_notes = <<>>
  /\ rows = <<>>
  /\ grouped = <<>>
  /\ outcome = "idle"
  /\ calls = 0
  /\ sunset_down = NoDay

\* the same, for a duration table
InitFormat ==
  /\ \E t \in TablesOf(FormatPins) : df = Upload(t)
  /\ gap_notes = <<>>
  /\ rows = <<>>
  /\ grouped = <<>>
  /\ outcome = "idle"
  /\ calls = 0
  /\ sunset_down = NoDay

\* process_data(df) on accumulator notes
Run(notes) ==
  LET c == Classified(df, notes)
  IN  /\ rows' = c.rows
      /\ gap_notes' = c.notes
      /\ IF SunsetRaises(c.rows, sunset_down)
         THEN outcome' = "raised" /\ grouped' = <<>>
         ELSE outcome' = "returned" /\ grouped' = Summaries(c.rows, c.notes)

\* a call of process_data, lines 52-206, in the running process
ProcessData ==
  /\ calls < MaxCalls
  /\ Run(gap_notes)
  /\ calls' = calls + 1
  /\ UNCHANGED <<df, sunset_down>>

\* the script is executed again for the same upload: line 12, then line 345
RunScript ==
  /\ calls > 0
  /\ Run(<<>>)
  /\ calls' = 1
  /\ UNCHANGED <<df, sunset_down>>

Next == ProcessData \/ RunScript

Spec == Init /\ [][Next]_vars

SpecRates == InitRates /\ [][Next]_vars

SpecFormat == InitFormat /\ [][Next]_vars

-----------------------------------------------------------------------------
(* classify_gap_and_note on its own: one row, classified MaxCalls times *)

ProbeGaps == {0, 29, 30, 300, 301, 1799, 1800, 1801, 3600, 6000, 7199, 7200, 7201, 86400}

ProbeRows == [rep : Reps, date : Days, gap : {NaN} \cup {Num(g) : g \in ProbeGaps},
              is_inspection : {0, 1}, prev_addr : {1}, addr : {2}]

InitClassify ==
  /\ df = <<>>
  /\ gap_notes = <<>>
  /\ \E r \in ProbeRows : rows = <<r>>
  /\ grouped = <<>>
  /\ outcome = "idle"
  /\ calls = 0
  /\ sunset_down = NoDay

ClassifyRow ==
  /\ calls < MaxCalls
  /\ LET c == ClassifyGapAndNote(rows[1], gap_notes)
     IN  /\ rows' = <<[long_gaps |-> c.ret] @@ rows[1]>>
         /\ gap_notes' = c.notes
  /\ calls' = calls + 1
  /\ outcome' = "returned"
  /\ UNCHANGED <<df, grouped, sunset_down>>

SpecClassify == InitClassify /\ [][ClassifyRow]_vars

-----------------------------------------------------------------------------
(* Claims *)

Range(f) == {f[i] : i \in DOMAIN f}

GroupedRows == Range(grouped)

\* what process_data returns for table t on an empty accumulator
FreshRun(t) == LET c == Classified(t, <<>>) IN Summaries(c.rows, c.notes)

\* C1: in every output row the summed excluded-idle seconds lie between 0 and
\* Finish - Start of that (rep, day), also when the day's first event follows
\* an event of an earlier day
C1_LongGapsWithinDay ==
  \A g \in GroupedRows :
    0 <= g.total_long_gaps_s /\ g.total_long_gaps_s <= g.finish - g.start

NotesOfRow(r) == GetNotes(gap_notes, <<r.rep, r.date>>)

Excluded(r, reason) ==
  /\ r.long_gaps = r.gap.v
  /\ Len(NotesOfRow(r)) = calls
  /\ \A n \in Range(NotesOfRow(r)) : n.reason = reason

NotExcluded(r) == r.long_gaps = 0 /\ NotesOfRow(r) = <<>>

\* C2: classify_gap_and_note has strict thresholds and tests Rule 2 first: a gap
\* of 1800 s is not excluded; 1801 s on a non-inspection event is excluded under
\* Rule 1; 7201 s is excluded under Rule 2 whether or not the event is an
\* inspection; a gap in (1800, 7200] on an inspection event is not excluded; an
\* undefined gap is not excluded
C2_StrictThresholds ==
  outcome = "returned" =>
    LET r == rows[1]
    IN  /\ r.gap = Num(1800) => NotExcluded(r)
        /\ (r.gap = Num(1801) /\ r.is_inspection = 0)
              => Excluded(r, "Rule 1: >30 min, not inspection")
        /\ r.gap = Num(7201) => Excluded(r, "Rule 2: >120 min")
        /\ (r.gap.k = "num" /\ r.gap.v > 1800 /\ r.gap.v <= 7200 /\ r.is_inspection = 1)
              => NotExcluded(r)
        /\ r.gap = NaN => NotExcluded(r)

C2_Witness ==
  /\ outcome = "returned"
  /\ rows[1].gap = Num(7201)
  /\ rows[1].is_inspection = 1
  /\ rows[1].long_gaps = 7201
  /\ NotesOfRow(rows[1]) # <<>>

\* C3: the note accumulator is empty at the start of every run, so whenever
\* process_data returns, its rows are those of a first run on the same table
C3_RerunIdentical ==
  outcome = "returned" => grouped = FreshRun(df)

Blank == <<>>

\* C4: when the sunset lookup fails for a day of the input, process_data still
\* returns: that day's Before Sunset is blank and the rows of the other days are
\* what they are without the failure
C4_SunsetFailureNonFatal ==
  (outcome # "idle" /\ SunsetRaises(rows, sunset_down)) =>
    /\ outcome = "returned"
    /\ Len(grouped) = Len(Summaries(rows, gap_notes))
    /\ \A k \in DOMAIN grouped :
         IF grouped[k].date = sunset_down
         THEN grouped[k].before_sunset = Blank
         ELSE grouped[k] = Summaries(rows, gap_notes)[k]

\* C5: in every output row each rate metric whose denominator is 0 is undefined,
\* never the value 0
C5_ZeroDenominatorUndefined ==
  \A g \in GroupedRows :
    /\ g.total_pins = 0 => IsNull(g.convo_pct) /\ IsNull(g.inspections_per_door)
    /\ g.conversations = 0 => IsNull(g.inspections_per_convo)
    /\ g.finish - g.start = 0 => IsNull(g.dph)
    /\ g.insp_damage = 0 => IsNull(g.closing_pct)
    /\ (g.finish - g.start - g.total_long_gaps_s) - g.inspection_time_s = 0
          => IsNull(g.true_dph) /\ g.true_dph_formatted.na

C5_Witness ==
  \E g \in GroupedRows :
    /\ g.conversations = 0 /\ g.inspections > 0
    /\ g.finish = g.start
    /\ g.insp_damage = 0 /\ g.claims_filed > 0
    /\ IsNull(g.inspections_per_convo) /\ IsNull(g.dph)
    /\ IsNull(g.closing_pct) /\ IsNull(g.true_dph)

\* C6, as claimed: a (rep, day) with at least one event and no conversation has
\* an undefined Convo %
C6_ConvoPctUndefined ==
  \A g \in GroupedRows :
    (g.total_pins >= 1 /\ g.conversations = 0) => IsNull(g.convo_pct)

\* C6, amended: a (rep, day) with at least one event and no conversation has
\* Convo % = 0.00, a defined value, its denominator Total Pins being at least 1
C6_ConvoPctZero ==
  \A g \in GroupedRows :
    /\ g.total_pins >= 1
    /\ g.conversations = 0 => g.convo_pct = Num(0)

C6_Witness ==
  \E g \in GroupedRows : g.conversations = 0 /\ g.total_pins = 2

\* the table of C7: one rep, one day, 09:00 "Not Interested", 09:10
\* "Interested - Follow Up", 10:50 "Inspected - No Damage", in any row order
IsScenario ==
  /\ Len(df) = 3
  /\ \A i \in DOMAIN df : df[i].rep = "Ann"
  /\ {<<df[i].at, df[i].status>> : i \in DOMAIN df}
       = {<<32400, "Not Interested">>, <<33000, "Interested - Follow Up">>,
          <<39000, "Inspected - No Damage">>}

ScenarioCounts ==
  /\ Len(rows) = 3
  /\ rows[1].gap = NaN /\ rows[2].gap = Num(600) /\ rows[3].gap = Num(6000)
  /\ rows[2].long_gaps = 0
  /\ Len(grouped) = 1
  /\ grouped[1].total_pins = 3
  /\ grouped[1].conversations = 1
  /\ grouped[1].inspections = 1
  /\ grouped[1].time_in_field = <<1, 50>>

\* C7, as claimed: on that table the gaps are 600 s (not excluded) and 6000 s,
\* excluded under Rule 1 with a note; Total Pins = 3, Conversations = 1,
\* Inspections = 1, Time in Field = "1h 50m", Adj Time in Field = "0h 10m"
C7_ScenarioAsClaimed ==
  (IsScenario /\ outcome = "returned") =>
    /\ ScenarioCounts
    /\ rows[3].long_gaps = 6000
    /\ \E n \in Range(grouped[1].note) : n.reason = "Rule 1: >30 min, not inspection"
    /\ grouped[1].adj_time_in_field = <<0, 10>>

\* C7, amended: on that table the gaps are 600 s and 6000 s and neither is
\* excluded (the 6000 s gap ends at an inspection event and is not above 7200 s),
\* no note is emitted; Total Pins = 3, Conversations = 1, Inspections = 1,
\* Time in Field = "1h 50m" and Adj Time in Field = "1h 50m"
C7_ScenarioAmended ==
  (IsScenario /\ outcome = "returned") =>
    /\ ScenarioCounts
    /\ rows[3].long_gaps = 0
    /\ grouped[1].note = <<>>
    /\ grouped[1].total_long_gaps_s = 0
    /\ grouped[1].adj_time_in_field = <<1, 50>>

C7_Witness ==
  /\ IsScenario /\ outcome = "returned"
  /\ df[1].at = 39000
  /\ grouped[1].adj_time_in_field = <<1, 50>>

\* C8: no event's gap contributes a non-zero amount both to Inspection Gap (s)
\* and to Long Gaps (s)
C8_GapClassesExclusive ==
  \A r \in Range(rows) : ~(r.inspection_gap > 0 /\ r.long_gaps > 0)

\* the rep's event just before e in (timestamp, row number) order
LexLess(a, b) == a.at < b.at \/ (a.at = b.at /\ a.addr < b.addr)

Preds(e) == {x \in Range(df) : x.rep = e.rep /\ LexLess(x, e)}

Pred(e) == CHOOSE x \in Preds(e) : \A y \in Preds(e) : y = x \/ LexLess(y, x)

GapOf(e) == e.at - Pred(e).at

ExcludedSeconds(e) ==
  IF Preds(e) = {} THEN 0
  ELSE IF \/ GapOf(e) > 7200
          \/ GapOf(e) > 1800 /\ e.status \notin {"Inspected - No Damage", "Inspected - Damage"}
       THEN GapOf(e) ELSE 0

DayOf(e) == e.at \div 86400

\* C9: each event's gap is measured against the same rep's immediately
\* preceding event whatever its day, and the excluded seconds and the note of
\* that gap go to the (rep, day) of the later event
C9_GapAttribution ==
  /\ \A r \in Range(rows) :
       LET e == df[r.addr]
       IN  IF Preds(e) = {} THEN r.gap = NaN
           ELSE r.gap = Num(GapOf(e)) /\ r.prev_addr = Pred(e).addr
  /\ \A g \in GroupedRows :
       g.total_long_gaps_s =
         SumSeq([i \in DOMAIN df |->
                   IF df[i].rep = g.rep /\ DayOf(df[i]) = g.date
                   THEN ExcludedSeconds(df[i]) ELSE 0])
  /\ \A key \in DOMAIN gap_notes : \A n \in Range(gap_notes[key]) :
       LET e == df[n.second_addr]
       IN  /\ e.rep = key[1] /\ DayOf(e) = key[2]
           /\ ExcludedSeconds(e) > 0
           /\ n.first_addr = Pred(e).addr

C9_Witness ==
  /\ outcome = "returned"
  /\ \E i, j \in DOMAIN df : df[i].rep # df[j].rep
  /\ \E r \in Range(rows) :
       /\ r.date = 1 /\ r.prev_addr > 0 /\ df[r.prev_addr].at < 86400
       /\ r.long_gaps > 7200
       /\ \E g \in GroupedRows :
            g.rep = r.rep /\ g.date = 1 /\ g.total_long_gaps_s = r.long_gaps
       /\ \A g \in GroupedRows : g.date = 0 => g.total_long_gaps_s = 0

\* C10: the displayed Adj Time in Field and Field Time Less Inspections are
\* never negative, and each is "0h 0m" whenever its underlying difference is
\* zero or negative
C10_DisplayedTimesFloored ==
  \A g \in GroupedRows :
    LET adj == (g.finish - g.start) - g.total_long_gaps_s
        less == adj - g.inspection_time_s
    IN  /\ g.adj_time_in_field[1] >= 0 /\ g.adj_time_in_field[2] >= 0
        /\ g.field_time_less_inspections[1] >= 0
        /\ g.field_time_less_inspections[2] >= 0
        /\ adj <= 0 => g.adj_time_in_field = <<0, 0>>
        /\ less <= 0 => g.field_time_less_inspections = <<0, 0>>

C10_Witness ==
  \E g, h \in GroupedRows :
    /\ (g.finish - g.start) - g.total_long_gaps_s < 0
    /\ g.adj_time_in_field = <<0, 0>>
    /\ g.field_time_less_inspections = <<0, 0>>
    /\ (h.finish - h.start) - h.total_long_gaps_s > 0
    /\ (h.finish - h.start) - h.total_long_gaps_s - h.inspection_time_s = 0
    /\ h.field_time_less_inspections = <<0, 0>>

\* C11: in every output row True DPH is undefined or a non-negative number,
\* also on days whose excluded-idle seconds plus inspection seconds exceed
\* Finish - Start
C11_TrueDphNonNegative ==
  \A g \in GroupedRows : IsNull(g.true_dph) \/ g.true_dph.v >= 0

\* the minutes (or seconds) component of a formatted duration
Component(text) == text[2]

\* C12: every formatted duration of an output row is well-formed: the minutes
\* of Time in Field, Adj Time in Field, Inspection Time, Before Sunset and
\* Field Time Less Inspections, and the seconds of True AVG Time/Door, are
\* in 0..59
C12_DurationsWellFormed ==
  \A g \in GroupedRows :
    /\ Component(g.time_in_field) \in 0..59
    /\ Component(g.adj_time_in_field) \in 0..59
    /\ Component(g.inspection_time) \in 0..59
    /\ Component(g.before_sunset) \in 0..59
    /\ Component(g.field_time_less_inspections) \in 0..59
    /\ Component(g.true_avg_time_per_door) \in 0..59
====
